---- MODULE Spec2Model ----
(***************************************************************************)
(* Model of dashboard/app.py: the fraud-detection dashboard.               *)
(*                                                                         *)
(* The program keeps no state of its own between callbacks: everything it  *)
(* reads or writes lives in the file system (the source CSV at DATA_FILE,  *)
(* and the report files download_report writes) and in the wall clock.     *)
(* `run` records the outcome of the most recent callback invocation, i.e.  *)
(* what Dash hands back to the browser.                                    *)
(*                                                                         *)
(* Abstractions: a timestamp is a whole number of hours since midnight of  *)
(* day 0; a date is a day number; a CSV file is its header (set of column  *)
(* names) and its sequence of records; an unparseable Timestamp cell is    *)
(* the value BadTs; float division is exact rational arithmetic (a ratio   *)
(* is kept as numerator and denominator).  The figures are kept as drawn   *)
(* or empty; of the aggregates, the label counts, the statistics, the      *)
(* alert, the sorted table rows and the heatmap matrix are computed (the   *)
(* today/yesterday series is left out).  An exception leaving a callback   *)
(* is a run whose status names the exception.                              *)
(***************************************************************************)
EXTENDS Integers, Sequences, FiniteSets, TLC

VARIABLES fs, clock, run

vars == <<fs, clock, run>>

(* ------------------------------ bounds -------------------------------- *)

\* rows in a generated source table
MaxRows == 2
\* days 0..MaxDay appear in timestamps and in the date picker
MaxDay == 1
\* rows in the tables used for the alert threshold
MaxAlertRows == 10
\* the wall clock runs over the ticks 0..MaxClock
MaxClock == 2
\* clock ticks in one second (the resolution of datetime.now() is finer than
\* the second strftime keeps)
TicksPerSecond == 2
\* rows the upstream process appends while the application runs
MaxAppends == 1

\* sampled hours of the day
Hours == {0, 1}
\* sampled Prediction cells: the two classes and one value outside them
PredictionValues == {0, 1, 2}

(* --------------------------- program constants ------------------------ *)

DATA_FILE == "results/predictions.csv"

Columns == {"TransactionID", "Amount", "Prediction", "Timestamp"}

\* the dropdown value 'All' (the other two values are the integers 1 and 0)
All == -1
\* an empty date picker (start_date / end_date is None)
NoDate == -1
\* a Timestamp cell pd.to_datetime cannot parse
BadTs == -1
\* Timestamp.dt.hour runs over 0..23
HoursPerDay == 24
\* the alert threshold 0.3, as the ratio AlertNum / AlertDen
AlertNum == 3
AlertDen == 10

PredictionFilters == {All, 1, 0}
Dates == {NoDate} \cup (0 .. MaxDay)
Times == {d * HoursPerDay + h : d \in 0 .. MaxDay, h \in Hours}

(* ------------------------------ files --------------------------------- *)

Absent == [kind |-> "absent", columns |-> {}, rows |-> <<>>]
\* a file pd.read_csv raises on (zero bytes, binary junk)
Garbage == [kind |-> "garbage", columns |-> {}, rows |-> <<>>]
\* a CSV file with the given header; each record holds the cells of those columns
Csv(columns, rows) ==
    [kind |-> "csv", columns |-> columns,
     rows |-> [i \in 1 .. Len(rows) |-> [c \in columns |-> rows[i][c]]]]

Record(id, p, t) ==
    [TransactionID |-> id, Amount |-> 100, Prediction |-> p, Timestamp |-> t]

\* the table whose i-th record has the cells cells[i] = <<Prediction, Timestamp>>
Table(cells) == [i \in 1 .. Len(cells) |-> Record(i, cells[i][1], cells[i][2])]

RECURSIVE SeqsUpTo(_, _)
SeqsUpTo(S, n) ==
    IF n = 0 THEN {<<>>}
    ELSE LET shorter == SeqsUpTo(S, n - 1)
         IN shorter \cup {Append(s, x) : s \in {q \in shorter : Len(q) = n - 1}, x \in S}

\* the cells <<Prediction, Timestamp>> of a generated record: both classes at
\* every sampled time, one Prediction outside the classes, one unparseable time
Cells == ({0, 1} \X Times) \cup {<<2, 0>>, <<1, BadTs>>}

\* n0 Normal records followed by n1 Fraud records, all at hour 0 of day 0
AlertTable(n0, n1) ==
    Table([i \in 1 .. (n0 + n1) |-> <<IF i <= n0 THEN 0 ELSE 1, 0>>])

SourceFiles ==
    {Absent, Garbage}
    \cup {Csv(Columns, Table(c)) : c \in SeqsUpTo(Cells, MaxRows)}
    \cup {Csv(Columns \ {col}, Table(c)) : col \in Columns,
                                          c \in SeqsUpTo({<<1, 0>>, <<0, 1>>}, 1)}
    \cup {Csv(Columns, AlertTable(c[1], c[2])) :
              c \in {d \in (0 .. MaxAlertRows) \X (1 .. MaxAlertRows) :
                         d[1] + d[2] <= MaxAlertRows}}

(* ------------------------------ load_data ----------------------------- *)

\* pd.DataFrame(columns=[...]): the four columns, zero rows
EmptyFrame == [columns |-> Columns, rows |-> <<>>]

\* os.path.exists(DATA_FILE)
Exists(filesystem, path) == filesystem[path].kind # "absent"

\* pd.to_datetime(df["Timestamp"]) raises on a cell it cannot parse
ToDatetimeRaises(rows) == \E i \in 1 .. Len(rows) : rows[i].Timestamp = BadTs

\* The bare except turns every exception of the try block (read_csv failing,
\* KeyError for a missing Timestamp column, a cell to_datetime cannot parse)
\* into the empty four-column frame.  Nothing checks the other three columns.
load_data(filesystem) ==
    LET file == filesystem[DATA_FILE]
    IN IF ~Exists(filesystem, DATA_FILE) THEN EmptyFrame
       ELSE IF file.kind = "garbage" THEN EmptyFrame
       ELSE IF "Timestamp" \notin file.columns THEN EmptyFrame
       ELSE IF ToDatetimeRaises(file.rows) THEN EmptyFrame
       ELSE [columns |-> file.columns, rows |-> file.rows]

\* faulty variant: the guard looks at the columns only
IsEmptyColumnsOnly(df) == df.columns = {}

\* df.empty: some axis has length 0
IsEmpty(df) == Len(df.rows) = 0 \/ df.columns = {}

(* ------------------------------- filter ------------------------------- *)

\* df[mask] is written [df EXCEPT !.rows = SelectSeq(@, mask)]: the rows whose
\* mask is true, in their order, under the same columns.

\* pd.to_datetime('YYYY-MM-DD'): midnight at the start of that day
DateToDatetime(date) == date * HoursPerDay

\* faulty variant: the Prediction mask is computed but its result is not kept
DashboardFilterNoPrediction(df, prediction_value, start_date, end_date) ==
    LET d2 == IF start_date # NoDate
              THEN [df EXCEPT !.rows =
                      SelectSeq(@, LAMBDA r : r.Timestamp >= DateToDatetime(start_date))]
              ELSE df
        d3 == IF end_date # NoDate
              THEN [d2 EXCEPT !.rows =
                      SelectSeq(@, LAMBDA r : r.Timestamp <= DateToDatetime(end_date))]
              ELSE d2
    IN d3

\* faulty variant: the end date is compared with < instead of <=
DashboardFilterOpenEnd(df, prediction_value, start_date, end_date) ==
    LET d1 == IF prediction_value # All
              THEN [df EXCEPT !.rows =
                      SelectSeq(@, LAMBDA r : r.Prediction = prediction_value)]
              ELSE df
        d2 == IF start_date # NoDate
              THEN [d1 EXCEPT !.rows =
                      SelectSeq(@, LAMBDA r : r.Timestamp >= DateToDatetime(start_date))]
              ELSE d1
        d3 == IF end_date # NoDate
              THEN [d2 EXCEPT !.rows =
                      SelectSeq(@, LAMBDA r : r.Timestamp < DateToDatetime(end_date))]
              ELSE d2
    IN d3

\* update_dashboard lines 153-158; meaningful when DashboardFilterRaises is false
DashboardFilter(df, prediction_value, start_date, end_date) ==
    LET d1 == IF prediction_value # All
              THEN [df EXCEPT !.rows =
                      SelectSeq(@, LAMBDA r : r.Prediction = prediction_value)]
              ELSE df
        d2 == IF start_date # NoDate
              THEN [d1 EXCEPT !.rows =
                      SelectSeq(@, LAMBDA r : r.Timestamp >= DateToDatetime(start_date))]
              ELSE d1
        d3 == IF end_date # NoDate
              THEN [d2 EXCEPT !.rows =
                      SelectSeq(@, LAMBDA r : r.Timestamp <= DateToDatetime(end_date))]
              ELSE d2
    IN d3

\* df["Prediction"] / df["Timestamp"] is a KeyError when the column is missing
DashboardFilterRaises(df, prediction_value, start_date, end_date) ==
    \/ prediction_value # All /\ "Prediction" \notin df.columns
    \/ (start_date # NoDate \/ end_date # NoDate) /\ "Timestamp" \notin df.columns

(* ----------------------------- aggregation ---------------------------- *)

\* a / b in exact arithmetic
Div(a, b) == [num |-> a, den |-> b]
\* 1 - q
OneMinus(q) == [num |-> q.den - q.num, den |-> q.den]
\* q * 100
Percent(q) == [num |-> q.num * 100, den |-> q.den]
\* q >= n / d, for positive denominators
AtLeast(q, n, d) == q.num * d >= n * q.den

RECURSIVE SumPrediction(_)
\* df["Prediction"].sum()
SumPrediction(rows) ==
    IF rows = <<>> THEN 0 ELSE Head(rows).Prediction + SumPrediction(Tail(rows))

\* len(df)
Total(df) == Len(df.rows)

\* faulty variant: df["Prediction"].count() in place of .sum()
FraudCountAsCount(df) == Len(df.rows)

\* df["Prediction"].sum()
FraudCount(df) == SumPrediction(df.rows)

\* df["Prediction"].map({0: 'Normal', 1: 'Fraud'}) then groupby('Label').size():
\* a Prediction outside {0, 1} maps to NaN and groupby drops it
LabelCounts(df) ==
    [Normal |-> Cardinality({i \in 1 .. Len(df.rows) : df.rows[i].Prediction = 0}),
     Fraud |-> Cardinality({i \in 1 .. Len(df.rows) : df.rows[i].Prediction = 1})]

\* (1 - fraud_count / total) * 100
Accuracy(fraud_count, total) == Percent(OneMinus(Div(fraud_count, total)))

\* fraud_count / total * 100
FraudPercent(fraud_count, total) == Percent(Div(fraud_count, total))

\* faulty variant: the threshold is compared with > instead of >=
HighFraudStrict(fraud_count, total) == fraud_count * AlertDen > AlertNum * total

\* fraud_count / total >= 0.3
HighFraud(fraud_count, total) == AtLeast(Div(fraud_count, total), AlertNum, AlertDen)

\* Timestamp.dt.hour and Timestamp.dt.date
HourOf(t) == t % HoursPerDay
DayOf(t) == t \div HoursPerDay

\* faulty variant: the heatmap groups every row, not the Prediction == 1 rows
HeatmapRowsUnfiltered(df) == df.rows

\* the rows the heatmap groups: df[df['Prediction'] == 1]
HeatmapRows(df) == SelectSeq(df.rows, LAMBDA r : r.Prediction = 1)

\* groupby(['Day', 'Hour']).size().unstack(fill_value=0): one row per Day and
\* one column per Hour among the grouped rows, 0 where a pair has no row
Heatmap(df) ==
    LET rows == HeatmapRows(df)
        index == {DayOf(rows[i].Timestamp) : i \in 1 .. Len(rows)}
        columns == {HourOf(rows[i].Timestamp) : i \in 1 .. Len(rows)}
    IN [index |-> index, columns |-> columns,
        z |-> [c \in index \X columns |->
                  Cardinality({i \in 1 .. Len(rows) :
                      /\ DayOf(rows[i].Timestamp) = c[1]
                      /\ HourOf(rows[i].Timestamp) = c[2]})]]

RECURSIVE InsertDesc(_, _)
InsertDesc(r, sorted) ==
    IF sorted = <<>> THEN <<r>>
    ELSE IF r.Timestamp >= Head(sorted).Timestamp THEN <<r>> \o sorted
    ELSE <<Head(sorted)>> \o InsertDesc(r, Tail(sorted))

RECURSIVE SortDesc(_)
\* df.sort_values(by='Timestamp', ascending=False); ties keep their order
SortDesc(rows) ==
    IF rows = <<>> THEN <<>>
    ELSE InsertDesc(Head(rows), SortDesc(Tail(rows)))

(* --------------------------- update_dashboard ------------------------- *)

Inputs(prediction_value, start_date, end_date) ==
    [prediction_value |-> prediction_value, start_date |-> start_date,
     end_date |-> end_date]

\* the nine outputs of the two early returns: empty figures, the message,
\* no table rows, no alert, no stats cards
Placeholder(in, loaded, filtered, message) ==
    [kind |-> "dashboard", inputs |-> in, status |-> message,
     loaded |-> loaded, filtered |-> filtered,
     figures |-> "empty", table_data |-> <<>>, alert |-> FALSE,
     stats |-> "none", divisors |-> <<>>]

\* the callback raised: Dash updates no output
Raised(in, loaded, filtered, where) ==
    [kind |-> "dashboard", inputs |-> in, status |-> where,
     loaded |-> loaded, filtered |-> filtered,
     figures |-> "unchanged", table_data |-> <<>>, alert |-> FALSE,
     stats |-> "none", divisors |-> <<>>]

\* lines 163-226 on a non-empty filtered frame
Aggregate(in, loaded, df) ==
    IF "Prediction" \notin df.columns THEN Raised(in, loaded, df, "KeyError:163")
    ELSE IF "Amount" \notin df.columns THEN Raised(in, loaded, df, "ValueError:174")
    ELSE
      LET total == Total(df)
          fraud_count == FraudCount(df)
      IN [kind |-> "dashboard", inputs |-> in, status |-> "ok",
          loaded |-> loaded, filtered |-> df,
          figures |-> "drawn",
          table_data |-> SortDesc(df.rows),
          alert |-> HighFraud(fraud_count, total),
          stats |-> [trend |-> LabelCounts(df), total |-> total,
                     fraud_count |-> fraud_count,
                     accuracy |-> Accuracy(fraud_count, total),
                     fraud_percent |-> FraudPercent(fraud_count, total),
                     heatmap |-> Heatmap(df)],
          \* the divisions of lines 180, 187 and 195
          divisors |-> <<total, total, total>>]

\* what one run of update_dashboard returns from the given file system
DashboardRun(filesystem, prediction_value, start_date, end_date) ==
    LET in == Inputs(prediction_value, start_date, end_date)
        loaded == load_data(filesystem)
    IN IF IsEmpty(loaded) THEN Placeholder(in, loaded, loaded, "No data yet")
       ELSE IF DashboardFilterRaises(loaded, prediction_value, start_date, end_date)
       THEN Raised(in, loaded, loaded, "KeyError:filter")
       ELSE LET df == DashboardFilter(loaded, prediction_value, start_date, end_date)
            IN IF IsEmpty(df)
               THEN Placeholder(in, loaded, df, "No data found for filters.")
               ELSE Aggregate(in, loaded, df)

update_dashboard(prediction_value, start_date, end_date) ==
    /\ run' = DashboardRun(fs, prediction_value, start_date, end_date)
    /\ UNCHANGED <<fs, clock>>

(* --------------------------- download_report -------------------------- *)

\* datetime.now().strftime('%Y%m%d_%H%M%S'): the time cut to whole seconds
Strftime(now) == ToString(now \div TicksPerSecond)

\* faulty variant: the report is written to the path of the source file
ReportNameIsDataFile(now) == DATA_FILE

\* f"fraud_report_{...}.csv"
ReportName(now) == "fraud_report_" \o Strftime(now) \o ".csv"

\* download_report lines 239-244; meaningful when ReportFilterRaises is false
ReportFilter(df, prediction_value, start_date, end_date) ==
    LET d1 == IF prediction_value # All
              THEN [df EXCEPT !.rows =
                      SelectSeq(@, LAMBDA r : r.Prediction = prediction_value)]
              ELSE df
        d2 == IF start_date # NoDate
              THEN [d1 EXCEPT !.rows =
                      SelectSeq(@, LAMBDA r : r.Timestamp >= DateToDatetime(start_date))]
              ELSE d1
        d3 == IF end_date # NoDate
              THEN [d2 EXCEPT !.rows =
                      SelectSeq(@, LAMBDA r : r.Timestamp <= DateToDatetime(end_date))]
              ELSE d2
    IN d3

\* df["Prediction"] / df["Timestamp"] is a KeyError when the column is missing
ReportFilterRaises(df, prediction_value, start_date, end_date) ==
    \/ prediction_value # All /\ "Prediction" \notin df.columns
    \/ (start_date # NoDate \/ end_date # NoDate) /\ "Timestamp" \notin df.columns

\* df.to_csv(file_name, index=False): the header row, then one line per row
ToCsv(df) == Csv(df.columns, df.rows)

\* the file system after one run of download_report
ReportWrite(filesystem, now, prediction_value, start_date, end_date) ==
    LET loaded == load_data(filesystem)
    IN IF ReportFilterRaises(loaded, prediction_value, start_date, end_date)
       THEN filesystem
       ELSE [filesystem EXCEPT ![ReportName(now)] =
                ToCsv(ReportFilter(loaded, prediction_value, start_date, end_date))]

\* what one run of download_report returns: dcc.send_file reads the file back
ReportRun(filesystem, now, prediction_value, start_date, end_date) ==
    LET in == Inputs(prediction_value, start_date, end_date)
        loaded == load_data(filesystem)
        after == ReportWrite(filesystem, now, prediction_value, start_date, end_date)
    IN IF ReportFilterRaises(loaded, prediction_value, start_date, end_date)
       THEN [kind |-> "report", inputs |-> in, status |-> "KeyError:filter",
             loaded |-> loaded, file_name |-> "", sent |-> Absent]
       ELSE [kind |-> "report", inputs |-> in, status |-> "ok",
             loaded |-> loaded, file_name |-> ReportName(now),
             sent |-> after[ReportName(now)]]

download_report(prediction_value, start_date, end_date) ==
    /\ fs' = ReportWrite(fs, clock, prediction_value, start_date, end_date)
    /\ run' = ReportRun(fs, clock, prediction_value, start_date, end_date)
    /\ UNCHANGED clock

(* ----------------------------- environment ---------------------------- *)

\* the records the upstream process appends while the application runs
UpstreamCells == {<<0, 0>>, <<1, HoursPerDay + 1>>}

\* the upstream process creates the source file, header only
UpstreamCreate ==
    /\ ~Exists(fs, DATA_FILE)
    /\ fs' = [fs EXCEPT ![DATA_FILE] = Csv(Columns, <<>>)]
    /\ UNCHANGED <<clock, run>>

\* the upstream process appends one record to the source file
UpstreamAppend(cell) ==
    /\ fs[DATA_FILE].kind = "csv"
    /\ Len(fs[DATA_FILE].rows) < MaxAppends
    /\ fs' = [fs EXCEPT ![DATA_FILE].rows =
                 Append(@, Record(Len(@) + 1, cell[1], cell[2]))]
    /\ UNCHANGED <<clock, run>>

\* time passes
Tick ==
    /\ clock < MaxClock
    /\ clock' = clock + 1
    /\ UNCHANGED <<fs, run>>

(* ---------------------------- specifications -------------------------- *)

Idle == [kind |-> "none"]

ReportPaths == {ReportName(now) : now \in 0 .. MaxClock}

Paths == {DATA_FILE} \cup ReportPaths

\* a file system holding the source file alone
SourceOnly(file) == [p \in Paths |-> IF p = DATA_FILE THEN file ELSE Absent]

\* The refresh pipeline over a fixed source file.
InitRefresh ==
    /\ fs \in {SourceOnly(file) : file \in SourceFiles}
    /\ clock = 0
    /\ run = Idle

NextRefresh ==
    \E pv \in PredictionFilters, sd \in Dates, ed \in Dates :
        update_dashboard(pv, sd, ed)

SpecRefresh == InitRefresh /\ [][NextRefresh]_vars

\* The export over a fixed source file.
NextExport ==
    \E pv \in PredictionFilters, sd \in Dates, ed \in Dates :
        download_report(pv, sd, ed)

SpecExport == InitRefresh /\ [][NextExport]_vars

\* The running application: the upstream process writes the source file, time
\* passes, and the timer, the filter controls and the download button fire the
\* two callbacks in any order.
LiveDates == {NoDate, 0}

Init ==
    /\ fs = SourceOnly(Absent)
    /\ clock = 0
    /\ run = Idle

Refresh ==
    \E pv \in PredictionFilters, sd \in LiveDates, ed \in LiveDates :
        update_dashboard(pv, sd, ed)

Export ==
    \E pv \in PredictionFilters, sd \in LiveDates, ed \in LiveDates :
        download_report(pv, sd, ed)

Next ==
    \/ UpstreamCreate
    \/ \E cell \in UpstreamCells : UpstreamAppend(cell)
    \/ Tick
    \/ Refresh
    \/ Export

Spec == Init /\ [][Next]_vars

(* ------------------------------ properties ---------------------------- *)

RowSet(df) == {df.rows[i] : i \in 1 .. Len(df.rows)}

\* every Prediction of the frame is one of the two classes
Binary(df) ==
    /\ "Prediction" \in df.columns
    /\ \A r \in RowSet(df) : r.Prediction \in {0, 1}

\* the last callback was update_dashboard and it ran through to the final return
Aggregated == run.kind = "dashboard" /\ run.status = "ok"

\* the last callback was update_dashboard and its filter (lines 153-158) completed
Filtered ==
    /\ run.kind = "dashboard"
    /\ run.status \notin {"No data yet", "KeyError:filter"}

\* the number of rows of the frame with Prediction = 1
FraudRows(df) == Cardinality({r \in RowSet(df) : r.Prediction = 1})

\* C1 (as stated): for every non-empty filtered table the alert is raised if and
\* only if (number of rows with Prediction = 1) / (number of rows) >= 0.30.
C1_AlertIffFraudShare ==
    Aggregated =>
        (run.alert <=> 10 * FraudRows(run.filtered) >= 3 * Len(run.filtered.rows))

\* C1 (amended): for every non-empty filtered table whose Prediction values are
\* all in {0, 1}, the alert is raised if and only if (number of rows with
\* Prediction = 1) / (number of rows) >= 0.30, the boundary included.
C1_AlertIffFraudShareBinary ==
    (Aggregated /\ Binary(run.filtered)) =>
        (run.alert <=> 10 * FraudRows(run.filtered) >= 3 * Len(run.filtered.rows))

\* 10 rows, 3 of them fraud: the alert is raised exactly at the boundary
C1_Witness ==
    /\ Aggregated
    /\ Binary(run.filtered)
    /\ Len(run.filtered.rows) = 10
    /\ FraudRows(run.filtered) = 3
    /\ run.alert

\* C2: for a loaded table with Predictions in {0, 1} and fixed dates, the rows
\* the Normal filter keeps and the rows the Fraud filter keeps are disjoint and
\* their union is the rows the All filter keeps.
C2_NormalFraudPartitionAll ==
    (run.kind = "dashboard" /\ Binary(run.loaded)) =>
        LET sd == run.inputs.start_date
            ed == run.inputs.end_date
            normal == RowSet(DashboardFilter(run.loaded, 0, sd, ed))
            fraud == RowSet(DashboardFilter(run.loaded, 1, sd, ed))
            all == RowSet(DashboardFilter(run.loaded, All, sd, ed))
        IN /\ normal \cap fraud = {}
           /\ normal \cup fraud = all

\* a run with both dates set over a table of which the Normal and the Fraud
\* filter each keep a row
C2_Witness ==
    /\ run.kind = "dashboard"
    /\ Binary(run.loaded)
    /\ run.inputs.start_date # NoDate
    /\ run.inputs.end_date # NoDate
    /\ LET sd == run.inputs.start_date
           ed == run.inputs.end_date
       IN /\ RowSet(DashboardFilter(run.loaded, 0, sd, ed)) # {}
          /\ RowSet(DashboardFilter(run.loaded, 1, sd, ed)) # {}

\* C3: a run whose loaded table or filtered table is empty returns the
\* placeholders (empty figures, no rows, no alert) and divides by nothing; every
\* division any run performs has a divisor >= 1.
C3_EmptyNeverDivides ==
    run.kind = "dashboard" =>
        /\ (Len(run.loaded.rows) = 0 \/ (Filtered /\ Len(run.filtered.rows) = 0)) =>
               /\ run.status \in {"No data yet", "No data found for filters."}
               /\ run.figures = "empty"
               /\ run.table_data = <<>>
               /\ ~run.alert
               /\ run.stats = "none"
               /\ run.divisors = <<>>
        /\ \A i \in 1 .. Len(run.divisors) : run.divisors[i] >= 1

\* a non-empty table of which the filters keep nothing
C3_Witness ==
    /\ run.kind = "dashboard"
    /\ Len(run.loaded.rows) > 0
    /\ Filtered
    /\ Len(run.filtered.rows) = 0
    /\ run.status = "No data found for filters."

\* C4 (as stated): load_data returns the empty four-column table, or a table in
\* which every record has all four fields and a valid Timestamp; a source file
\* lacking a required column gives the empty four-column table.
C4_LoadAllOrNothing ==
    run.kind = "dashboard" =>
        /\ \/ run.loaded = EmptyFrame
           \/ /\ run.loaded.columns = Columns
              /\ \A r \in RowSet(run.loaded) : r.Timestamp # BadTs
        /\ fs[DATA_FILE].columns # Columns => run.loaded = EmptyFrame

\* C5 (as stated): two exports of one run of the application never write the
\* same file name, so a report file, once written, is not overwritten by a
\* later export.
C5_ReportsNeverOverwritten ==
    [][\A p \in ReportPaths : Exists(fs, p) => fs'[p] = fs[p]]_vars

\* C6 (as stated): download_report always succeeds, whatever the source file
\* and the filter settings, and sends a file whose data rows are the rows the
\* dashboard filter keeps for the same inputs.
C6_ExportAlwaysSucceeds ==
    run.kind = "report" =>
        /\ run.status = "ok"
        /\ run.sent.kind = "csv"
        /\ run.sent.rows =
               DashboardFilter(run.loaded, run.inputs.prediction_value,
                               run.inputs.start_date, run.inputs.end_date).rows

\* the rows of the frame the given filter settings select
Selected(df, in) ==
    {r \in RowSet(df) :
        /\ in.prediction_value = All \/ r.Prediction = in.prediction_value
        /\ in.start_date = NoDate \/ r.Timestamp >= in.start_date * HoursPerDay
        /\ in.end_date = NoDate \/ r.Timestamp <= in.end_date * HoursPerDay}

\* C7: the date filter keeps exactly the rows at or after midnight opening the
\* start date (when given) and at or before midnight opening the end date (when
\* given), in update_dashboard and in download_report alike.
C7_DateRangeIsMidnightToMidnight ==
    Filtered =>
        /\ RowSet(run.filtered) = Selected(run.loaded, run.inputs)
        /\ RowSet(ReportFilter(run.loaded, run.inputs.prediction_value,
                               run.inputs.start_date, run.inputs.end_date))
               = Selected(run.loaded, run.inputs)

\* a row stamped at 00:00 of the end date is kept and a later row of that date
\* is dropped
C7_Witness ==
    /\ Filtered
    /\ run.inputs.end_date # NoDate
    /\ \E r \in RowSet(run.filtered) :
           r.Timestamp = run.inputs.end_date * HoursPerDay
    /\ \E r \in RowSet(run.loaded) \ RowSet(run.filtered) :
           /\ r.Timestamp > run.inputs.end_date * HoursPerDay
           /\ r.Timestamp < (run.inputs.end_date + 1) * HoursPerDay

\* C8: on a non-empty filtered table with Predictions in {0, 1} the Normal and
\* Fraud counts sum to total, total is the number of rows, fraud_count is the
\* Fraud count, accuracy is (1 - fraud_count/total) * 100, the fraud percentage
\* is fraud_count/total * 100, and the two percentages sum to 100.
C8_CountsAndPercentagesAddUp ==
    (Aggregated /\ Binary(run.filtered)) =>
        LET st == run.stats
        IN /\ st.total = Len(run.filtered.rows)
           /\ st.trend.Normal + st.trend.Fraud = st.total
           /\ st.fraud_count = st.trend.Fraud
           /\ st.accuracy.den = st.total
           /\ st.accuracy.num = 100 * (st.total - st.fraud_count)
           /\ st.fraud_percent.den = st.total
           /\ st.fraud_percent.num = 100 * st.fraud_count
           /\ st.accuracy.num + st.fraud_percent.num = 100 * st.total

\* a filtered table holding both classes
C8_Witness ==
    /\ Aggregated
    /\ Binary(run.filtered)
    /\ run.stats.trend.Normal >= 1
    /\ run.stats.trend.Fraud >= 1

\* C9: a run of either callback leaves the source file as it was, and what it
\* returns is what the same callback returns, at the same moment and with the
\* same filter inputs, from a file system that holds the source file and
\* nothing any earlier run produced.
C9_RunsReadOnlyTheSource ==
    [][\A pv \in PredictionFilters, sd \in LiveDates, ed \in LiveDates :
          /\ update_dashboard(pv, sd, ed) =>
                 /\ fs'[DATA_FILE] = fs[DATA_FILE]
                 /\ run' = DashboardRun(SourceOnly(fs[DATA_FILE]), pv, sd, ed)
          /\ download_report(pv, sd, ed) =>
                 /\ fs'[DATA_FILE] = fs[DATA_FILE]
                 /\ run' = ReportRun(SourceOnly(fs[DATA_FILE]), clock, pv, sd, ed)]_vars

\* a refresh that ran to the end after an export had written a report whose
\* rows are not those of the source file
C9_Witness ==
    /\ Aggregated
    /\ run.loaded.rows = fs[DATA_FILE].rows
    /\ \E p \in ReportPaths : Exists(fs, p) /\ fs[p].rows # fs[DATA_FILE].rows

\* the hours of the day and the days of a set of rows
HoursOf(rows) == {r.Timestamp % 24 : r \in rows}
DaysOf(rows) == {r.Timestamp \div 24 : r \in rows}

\* the Prediction = 1 rows of the frame
FraudSet(df) == {r \in RowSet(df) : r.Prediction = 1}

\* each cell of the heatmap counts the Prediction = 1 rows of its day and hour
HeatmapCellsCount ==
    \A c \in DOMAIN run.stats.heatmap.z :
        run.stats.heatmap.z[c] =
            Cardinality({r \in RowSet(run.filtered) :
                /\ r.Prediction = 1
                /\ r.Timestamp = c[1] * 24 + c[2]})

\* C10 (as stated): the columns of the heatmap are the hours observed across
\* all rows of the filtered table, and each cell counts the Prediction = 1 rows
\* of its day and hour.
C10_HeatmapColumnsAllHours ==
    Aggregated =>
        /\ run.stats.heatmap.columns = HoursOf(RowSet(run.filtered))
        /\ DOMAIN run.stats.heatmap.z
               = run.stats.heatmap.index \X run.stats.heatmap.columns
        /\ HeatmapCellsCount

\* C10 (amended): the columns of the heatmap are the hours observed across the
\* Prediction = 1 rows of the filtered table, its rows the days of those rows,
\* and each cell (day, hour) is the number of Prediction = 1 rows with that day
\* and hour, 0 where there is none.
C10_HeatmapColumnsFraudHours ==
    Aggregated =>
        /\ run.stats.heatmap.columns = HoursOf(FraudSet(run.filtered))
        /\ run.stats.heatmap.index = DaysOf(FraudSet(run.filtered))
        /\ DOMAIN run.stats.heatmap.z
               = run.stats.heatmap.index \X run.stats.heatmap.columns
        /\ HeatmapCellsCount

\* a heatmap with a counted cell and a cell filled with 0
C10_Witness ==
    /\ Aggregated
    /\ \E c \in DOMAIN run.stats.heatmap.z : run.stats.heatmap.z[c] = 0
    /\ \E c \in DOMAIN run.stats.heatmap.z : run.stats.heatmap.z[c] >= 1

====
